---- MODULE Spec2Model ----
(***************************************************************************)
(* TouristTable REST backend (src/main.py, src/schemas.py): the document   *)
(* store, the request handlers over it, and the review handler's           *)
(* insert / aggregate / write steps run by concurrent requests.            *)
(*                                                                         *)
(* Strings that are parsed or formatted (identifiers, group keys) are      *)
(* sequences of one-character strings.  Floats holding ratings are kept in *)
(* hundredths (avg_rating 4.33 is 433).  Timestamps are readings of clock. *)
(***************************************************************************)
EXTENDS Integers, Sequences, FiniteSets, TLC

VARIABLES
    db,         \* the store: collection name -> set of documents
    clock,      \* the latest reading of datetime.now
    createdAt,  \* <<collection, _id>> -> the clock when the document was inserted
    last,       \* the latest request that wrote to the store, and its response
    inflight    \* the create_review requests being handled concurrently

vars == <<db, clock, createdAt, last, inflight>>

------------------------------------------------------------------------------
(* Bounds of the model: the documents per collection (MaxPromos for the     *)
(* discounts and for the campaigns) and the writes of a run of the API.    *)

MaxRestaurants == 2
MaxReviews == 3
MaxReservations == 2
MaxPromos == 1
MaxOps == 3

------------------------------------------------------------------------------
(* Values *)

None == "<None>"

HexLower == <<"0","1","2","3","4","5","6","7","8","9","a","b","c","d","e","f">>
HexUpper == <<"0","1","2","3","4","5","6","7","8","9","A","B","C","D","E","F">>

IsHex(c) == \E v \in 1..Len(HexLower) : HexLower[v] = c \/ HexUpper[v] = c
HexVal(c) == (CHOOSE v \in 1..Len(HexLower) : HexLower[v] = c \/ HexUpper[v] = c) - 1

\* An ObjectId is a fixed number of hex digits (24 in bson; scaled down here).
OidLen == 1

\* What parsing gives for a string that is no identifier (no ObjectId is empty).
Invalid == << >>

\* bson.ObjectId(id_str): the string must have exactly OidLen characters, all
\* hex digits of either case; the value is the digits' numeric values.
ObjectId(s) ==
    IF Len(s) = OidLen /\ \A i \in 1..Len(s) : IsHex(s[i])
    THEN [i \in 1..Len(s) |-> HexVal(s[i])]
    ELSE Invalid

\* str(ObjectId): lower-case hex.
OidStr(o) == [i \in 1..Len(o) |-> HexLower[o[i] + 1]]

\* The id strings a client sends: the first and second generated ids, the
\* first one in upper case, and a string with a character that is no hex digit.
IdStrings == { <<"a">>, <<"A">>, <<"b">>, <<"g">> }

Collections == {"restaurant", "review", "reservation", "discount", "campaign"}

\* Field update: the fields of upd replace or extend those of doc ($set).
SetFields(doc, upd) == upd @@ doc

\* str(int) for the one-digit group keys of the analytics report.
IntStr(v) == <<HexLower[v + 1]>>

------------------------------------------------------------------------------
(* Schemas (src/schemas.py) and request bodies *)

RatingMin == 1
RatingMax == 5

ReservationStatuses == {"confirmed", "pending", "waitlist"}

\* Restaurant: name is required; description and avg_rating have defaults.
RestaurantDefaults == [description |-> None, avg_rating |-> 0]
\* Mutant: the schema fills in no default.
RestaurantNoDefaults(p) == p
Restaurant(p) == p @@ RestaurantDefaults

\* Review: rating is an integer with ge=1, le=5.
ReviewValid(p) == p.rating >= RatingMin /\ p.rating <= RatingMax

\* Reservation: status is one of the three literals, default pending.
ReservationDefaults == [status |-> "pending", notes |-> None]
Reservation(p) == p @@ ReservationDefaults
ReservationValid(p) == Reservation(p).status \in ReservationStatuses

\* Discount and Campaign: restaurant_id, active (default True).
PromoDefaults == [active |-> TRUE]
Promo(p) == p @@ PromoDefaults

\* Patch models: every field is Optional with default None, and
\* model_dump(exclude_none=True) keeps the fields that are not None.
RestaurantPatchFields == {"name", "description"}
ReservationPatchFields == {"status", "notes"}

PatchModel(fields, p) == [f \in fields |-> IF f \in DOMAIN p THEN p[f] ELSE None]
\* Mutant: model_dump without exclude_none.
KeepNone(m) == m
ExcludeNone(m) == [f \in {g \in DOMAIN m : m[g] # None} |-> m[f]]

\* Request bodies the clients send.  A body's restaurant_id is the path's id
\* or, for the mismatch, another string.
RestaurantBodies ==
    { [name |-> "n1"],
      [name |-> "n1", description |-> "d1", avg_rating |-> 350] }
RestaurantPatches ==
    { << >>, [name |-> None], [name |-> "n2"], [name |-> None, description |-> "d2"] }
RatingInputs == {1, 2, 6}
BodyIds(s) == {s, <<"b">>}
ReviewBodies(s) == [restaurant_id : BodyIds(s), rating : RatingInputs]
ReservationBodies(s) ==
    [restaurant_id : BodyIds(s)] \cup [restaurant_id : {s}, status : {"cancelled"}]
ReservationPatches ==
    { << >>, [status |-> "waitlist"], [status |-> "cancelled"], [notes |-> "x"] }
PromoBodies(s) == [restaurant_id : BodyIds(s)]

------------------------------------------------------------------------------
(* Document store adapter *)

\* The identifier the store generates for the next document of a collection.
NewOid(coll) ==
    [i \in 1..OidLen |-> IF i = OidLen THEN 10 + Cardinality(coll) ELSE 10]

\* create_document(collection, data): insert with a generated _id.
create_document(d, c, data) ==
    [d EXCEPT ![c] = @ \cup { SetFields(data, [_id |-> NewOid(d[c])]) }]

\* The id string create_document returns.
created_id(d, c) == OidStr(NewOid(d[c]))

\* get_documents(collection, filter, limit): the documents matching every
\* clause (the limits, 50 and more, are above the sizes explored here).
get_documents(d, c, filt) ==
    { x \in d[c] : \A f \in DOMAIN filt : f \in DOMAIN x /\ x[f] = filt[f] }

\* collection.update_one({"_id": oid}, {"$set": upd})
matched_count(d, c, oid) == Cardinality({ x \in d[c] : x._id = oid })
\* Mutant: the update is applied without the _id filter.
update_every(d, c, oid, upd) ==
    [d EXCEPT ![c] = { SetFields(x, upd) : x \in @ }]
update_one(d, c, oid, upd) ==
    [d EXCEPT ![c] = { IF x._id = oid THEN SetFields(x, upd) ELSE x : x \in @ }]

\* Mutant: the grouped count without the $match stage.
GroupCountAll(d, c, s, field) ==
    [k \in { x[field] : x \in d[c] } |-> Cardinality({ x \in d[c] : x[field] = k })]

\* $match restaurant_id then $group by a field with {"$sum": 1}.
GroupCount(d, c, s, field) ==
    LET m == get_documents(d, c, [restaurant_id |-> s])
    IN  [k \in { x[field] : x \in m } |-> Cardinality({ x \in m : x[field] = k })]

------------------------------------------------------------------------------
(* Helpers (src/main.py) *)

to_str_id(doc) ==
    IF "_id" \in DOMAIN doc THEN [doc EXCEPT !._id = OidStr(@)] ELSE doc

ensure_object_id(s) == ObjectId(s)

Response(d, status, out) == [db |-> d, status |-> status, out |-> out]

InvalidId(d) == Response(d, 400, "Invalid id format")

------------------------------------------------------------------------------
(* Restaurants *)

create_restaurant(d, payload) ==
    Response(create_document(d, "restaurant", Restaurant(payload)), 200,
             [_id |-> created_id(d, "restaurant")])

get_restaurant(d, s) ==
    LET oid == ensure_object_id(s)
        found == { x \in d["restaurant"] : x._id = oid }
    IN  IF oid = Invalid THEN InvalidId(d)
        ELSE IF found = {} THEN Response(d, 404, "Restaurant not found")
        ELSE Response(d, 200, to_str_id(CHOOSE x \in found : TRUE))

\* Mutant: the PATCH body without the matched_count check.
update_document_unchecked(d, c, fields, s, payload, now, missing) ==
    LET updates == ExcludeNone(PatchModel(fields, payload))
        oid == ensure_object_id(s)
    IN  IF DOMAIN updates = {} THEN Response(d, 200, [updated |-> FALSE])
        ELSE IF oid = Invalid THEN InvalidId(d)
        ELSE Response(update_one(d, c, oid, SetFields(updates, [updated_at |-> now])),
                      200, [updated |-> TRUE])

\* The body of both PATCH handlers; now is the reading of the clock.
update_document(d, c, fields, s, payload, now, missing) ==
    LET updates == ExcludeNone(PatchModel(fields, payload))
        oid == ensure_object_id(s)
    IN  IF DOMAIN updates = {} THEN Response(d, 200, [updated |-> FALSE])
        ELSE IF oid = Invalid THEN InvalidId(d)
        ELSE IF matched_count(d, c, oid) = 0 THEN Response(d, 404, missing)
        ELSE Response(update_one(d, c, oid, SetFields(updates, [updated_at |-> now])),
                      200, [updated |-> TRUE])

update_restaurant(d, s, payload, now) ==
    update_document(d, "restaurant", RestaurantPatchFields, s, payload, now,
                    "Restaurant not found")

------------------------------------------------------------------------------
(* Reviews *)

RECURSIVE SumRatings(_)
SumRatings(S) ==
    IF S = {} THEN 0
    ELSE LET x == CHOOSE y \in S : TRUE IN x.rating + SumRatings(S \ {x})

\* Mutant: the average cut to two decimal places instead of rounded.
Truncate2(sum, n) == (100 * sum) \div n

\* round(sum / n, 2) in hundredths: to the nearest, a tie to the even one.
Round2(sum, n) ==
    LET q == (100 * sum) \div n
        r == (100 * sum) % n
    IN  IF 2 * r < n THEN q
        ELSE IF 2 * r > n THEN q + 1
        ELSE IF q % 2 = 0 THEN q ELSE q + 1

\* Mutant: the average over every review, without the $match stage.
ReviewAggregateAll(d, s) ==
    IF d["review"] = {} THEN <<>>
    ELSE << [_id |-> s, sum |-> SumRatings(d["review"]),
             count |-> Cardinality(d["review"])] >>

\* The pipeline: $match restaurant_id, $group with $avg of rating and a count.
\* No matching review gives no group.
ReviewAggregate(d, s) ==
    LET m == get_documents(d, "review", [restaurant_id |-> s])
    IN  IF m = {} THEN <<>>
        ELSE << [_id |-> s, sum |-> SumRatings(m), count |-> Cardinality(m)] >>

\* First step of create_review: the body is validated, then the mismatch
\* check and the insert.
ReviewInsert(d, s, payload) ==
    IF ~ReviewValid(payload) THEN Response(d, 422, "validation error")
    ELSE IF s # payload.restaurant_id THEN Response(d, 400, "restaurant_id mismatch")
    ELSE Response(create_document(d, "review", payload), 200,
                  [_id |-> created_id(d, "review")])

\* Last step of create_review: write the rounded average and return the id.
ReviewWrite(d, s, agg, out) ==
    IF agg = <<>> THEN Response(d, 200, out)
    ELSE IF ensure_object_id(s) = Invalid THEN InvalidId(d)
    ELSE Response(update_one(d, "restaurant", ensure_object_id(s),
                             [avg_rating |-> Round2(agg[1].sum, agg[1].count)]),
                  200, out)

\* The handler run alone: its three steps with nothing in between.
create_review(d, s, payload) ==
    LET ins == ReviewInsert(d, s, payload)
    IN  IF ins.status # 200 THEN ins
        ELSE ReviewWrite(ins.db, s, ReviewAggregate(ins.db, s), ins.out)

list_reviews(d, s) ==
    Response(d, 200, { to_str_id(x) : x \in get_documents(d, "review", [restaurant_id |-> s]) })

------------------------------------------------------------------------------
(* Reservations *)

create_reservation(d, s, payload) ==
    IF ~ReservationValid(payload) THEN Response(d, 422, "validation error")
    ELSE IF s # payload.restaurant_id THEN Response(d, 400, "restaurant_id mismatch")
    ELSE Response(create_document(d, "reservation", Reservation(payload)), 200,
                  [_id |-> created_id(d, "reservation")])

\* status is the optional query parameter: None when not given.
list_reservations(d, s, status) ==
    LET filt == IF status # None THEN [restaurant_id |-> s, status |-> status]
                ELSE [restaurant_id |-> s]
    IN  Response(d, 200, { to_str_id(x) : x \in get_documents(d, "reservation", filt) })

update_reservation(d, s, payload, now) ==
    update_document(d, "reservation", ReservationPatchFields, s, payload, now,
                    "Reservation not found")

------------------------------------------------------------------------------
(* Discounts and campaigns *)

create_promo(d, c, s, payload) ==
    IF payload.restaurant_id # s THEN Response(d, 400, "restaurant_id mismatch")
    ELSE Response(create_document(d, c, Promo(payload)), 200,
                  [_id |-> created_id(d, c)])

create_discount(d, s, payload) == create_promo(d, "discount", s, payload)
create_campaign(d, s, payload) == create_promo(d, "campaign", s, payload)

\* active is the optional query parameter: <<>> when not given, else <<bool>>.
list_promos(d, c, s, active) ==
    LET filt == IF active # <<>> THEN [restaurant_id |-> s, active |-> active[1]]
                ELSE [restaurant_id |-> s]
    IN  Response(d, 200, { to_str_id(x) : x \in get_documents(d, c, filt) })

list_discounts(d, s, active) == list_promos(d, "discount", s, active)
list_campaigns(d, s, active) == list_promos(d, "campaign", s, active)

------------------------------------------------------------------------------
(* Analytics *)

\* {str(group key): count} of a grouped count whose keys are integers.
StrKeys(g) ==
    [k \in { IntStr(v) : v \in DOMAIN g } |-> g[CHOOSE v \in DOMAIN g : IntStr(v) = k]]

restaurant_analytics(d, s) ==
    Response(d, 200,
             [reviews |-> StrKeys(GroupCount(d, "review", s, "rating")),
              reservations |-> GroupCount(d, "reservation", s, "status")])

------------------------------------------------------------------------------
(* The service: one request handled at a time *)

Procs == {"p1", "p2"}

Idle == [pc |-> "idle", s |-> <<>>, agg |-> <<>>, out |-> None, status |-> 0]

\* The collections with a PATCH handler; their documents' creation times are
\* recorded in createdAt.
Patchable == {"restaurant", "reservation"}

Init ==
    /\ db = [c \in Collections |-> {}]
    /\ clock = 0
    /\ createdAt = << >>
    /\ last = [op |-> "start", id |-> <<>>, body |-> None, status |-> 0, out |-> None]
    /\ inflight = [p \in Procs |-> Idle]

WithinBounds(d) ==
    /\ Cardinality(d["restaurant"]) <= MaxRestaurants
    /\ Cardinality(d["review"]) <= MaxReviews
    /\ Cardinality(d["reservation"]) <= MaxReservations
    /\ Cardinality(d["discount"]) <= MaxPromos
    /\ Cardinality(d["campaign"]) <= MaxPromos

DocKeys(d) == UNION { { <<c, x._id>> : x \in d[c] } : c \in Patchable }

\* The number of documents stored.
Size(d) ==
    Cardinality(d["restaurant"]) + Cardinality(d["review"])
    + Cardinality(d["reservation"]) + Cardinality(d["discount"])
    + Cardinality(d["campaign"])

\* clock is the latest reading of datetime.now (only the PATCH handlers read
\* it): a request that stores a timestamp stores the next reading, and a
\* document inserted is created between that reading and the next.
Commit(d, t, budget) ==
    /\ d # db
    /\ Size(db) + clock < budget
    /\ WithinBounds(d)
    /\ db' = d
    /\ clock' = t
    /\ createdAt' = [k \in DocKeys(d) |->
                       IF k \in DOMAIN createdAt THEN createdAt[k] ELSE clock]

\* The request is answered with r.  last keeps the latest request that wrote
\* to the store, with its response; a request that leaves the store as it was
\* changes nothing.
Respond(op, s, body, r, t, budget) ==
    IF r.db = db THEN UNCHANGED vars
    ELSE /\ Commit(r.db, t, budget)
         /\ last' = [op |-> op, id |-> s, body |-> body, status |-> r.status, out |-> r.out]
         /\ UNCHANGED inflight

Now == clock + 1

\* The whole API is explored under a budget of MaxOps writes.
Apply(op, s, body, r, t) == Respond(op, s, body, r, t, MaxOps)

CreateRestaurant ==
    \E p \in RestaurantBodies :
        Apply("create_restaurant", <<>>, p, create_restaurant(db, p), clock)

GetRestaurant ==
    \E s \in IdStrings : Apply("get_restaurant", s, None, get_restaurant(db, s), clock)

UpdateRestaurant ==
    \E s \in IdStrings, p \in RestaurantPatches :
        Apply("update_restaurant", s, p, update_restaurant(db, s, p, Now), Now)

CreateReview ==
    \E s \in IdStrings : \E p \in ReviewBodies(s) :
        Apply("create_review", s, p, create_review(db, s, p), clock)

ListReviews ==
    \E s \in IdStrings : Apply("list_reviews", s, None, list_reviews(db, s), clock)

CreateReservation ==
    \E s \in IdStrings : \E p \in ReservationBodies(s) :
        Apply("create_reservation", s, p, create_reservation(db, s, p), clock)

ListReservations ==
    \E s \in IdStrings, st \in {None, "pending", "cancelled"} :
        Apply("list_reservations", s, st, list_reservations(db, s, st), clock)

UpdateReservation ==
    \E s \in IdStrings, p \in ReservationPatches :
        Apply("update_reservation", s, p, update_reservation(db, s, p, Now), Now)

CreateDiscount ==
    \E s \in IdStrings : \E p \in PromoBodies(s) :
        Apply("create_discount", s, p, create_discount(db, s, p), clock)

ListDiscounts ==
    \E s \in IdStrings, a \in {<<>>, <<TRUE>>} :
        Apply("list_discounts", s, a, list_discounts(db, s, a), clock)

CreateCampaign ==
    \E s \in IdStrings : \E p \in PromoBodies(s) :
        Apply("create_campaign", s, p, create_campaign(db, s, p), clock)

ListCampaigns ==
    \E s \in IdStrings, a \in {<<>>, <<TRUE>>} :
        Apply("list_campaigns", s, a, list_campaigns(db, s, a), clock)

RestaurantAnalytics ==
    \E s \in IdStrings :
        Apply("restaurant_analytics", s, None, restaurant_analytics(db, s), clock)

Next ==
    \/ CreateRestaurant
    \/ GetRestaurant
    \/ UpdateRestaurant
    \/ CreateReview
    \/ ListReviews
    \/ CreateReservation
    \/ ListReservations
    \/ UpdateReservation
    \/ RestaurantAnalytics

Spec == Init /\ [][Next]_vars

------------------------------------------------------------------------------
(* Discounts and campaigns of restaurants *)

NextPromos ==
    \/ CreateRestaurant
    \/ CreateDiscount
    \/ ListDiscounts
    \/ CreateCampaign
    \/ ListCampaigns

SpecPromos == Init /\ [][NextPromos]_vars

------------------------------------------------------------------------------
(* Restaurants and their reviews, up to MaxReviews reviews *)

\* A restaurant and MaxReviews reviews, or more restaurants and fewer reviews.
ReviewsBudget == MaxReviews + 1

ReviewsCreateRestaurant ==
    \E p \in RestaurantBodies :
        Respond("create_restaurant", <<>>, p, create_restaurant(db, p), clock, ReviewsBudget)

ReviewsCreateReview ==
    \E s \in IdStrings : \E p \in ReviewBodies(s) :
        Respond("create_review", s, p, create_review(db, s, p), clock, ReviewsBudget)

NextReviews ==
    \/ ReviewsCreateRestaurant
    \/ ReviewsCreateReview
    \/ GetRestaurant
    \/ ListReviews
    \/ RestaurantAnalytics

SpecReviews == Init /\ [][NextReviews]_vars

------------------------------------------------------------------------------
(* create_review requests handled concurrently: the store runs each of the  *)
(* handler's operations (insert, aggregate, update) on its own, and other   *)
(* requests' operations may come in between.                                *)

\* A restaurant and the reviews of the requests, MaxReviews documents in all.
ConcBudget == MaxReviews

ConcCreateRestaurant ==
    \E p \in RestaurantBodies :
        Respond("create_restaurant", <<>>, p, create_restaurant(db, p), clock, ConcBudget)

\* A request in flight keeps the handler's locals; when the handler returns
\* (with the id, or with an error) the request is gone.
ReviewStart(p) ==
    \E s \in IdStrings : \E payload \in ReviewBodies(s) :
        LET r == ReviewInsert(db, s, payload)
        IN  /\ inflight[p].pc = "idle"
            /\ r.db # db => Size(db) < ConcBudget /\ WithinBounds(r.db)
            /\ db' = r.db
            /\ inflight' = [inflight EXCEPT ![p] =
                   IF r.status # 200 THEN Idle
                   ELSE [pc |-> "aggregate", s |-> s, agg |-> <<>>,
                         out |-> r.out, status |-> 0]]
            /\ UNCHANGED <<clock, createdAt, last>>

ReviewAggregateStep(p) ==
    /\ inflight[p].pc = "aggregate"
    /\ inflight' = [inflight EXCEPT ![p].agg = ReviewAggregate(db, inflight[p].s),
                                    ![p].pc = "write"]
    /\ UNCHANGED <<db, clock, createdAt, last>>

ReviewWriteStep(p) ==
    LET r == ReviewWrite(db, inflight[p].s, inflight[p].agg, inflight[p].out)
    IN  /\ inflight[p].pc = "write"
        /\ db' = r.db
        /\ inflight' = [inflight EXCEPT ![p] = Idle]
        /\ UNCHANGED <<clock, createdAt, last>>

NextConc ==
    \/ ConcCreateRestaurant
    \/ \E p \in Procs : ReviewStart(p)
    \/ \E p \in Procs : ReviewAggregateStep(p)
    \/ \E p \in Procs : ReviewWriteStep(p)

SpecConc == Init /\ [][NextConc]_vars

------------------------------------------------------------------------------
(* Properties *)

RECURSIVE RatingTotal(_)
RatingTotal(S) ==
    IF S = {} THEN 0
    ELSE LET x == CHOOSE y \in S : TRUE IN x.rating + RatingTotal(S \ {x})

\* h hundredths is sum / n rounded to two decimal places: no hundredth is nearer.
IsRounded2(h, sum, n) ==
    LET e == 100 * sum - h * n IN 2 * (IF e < 0 THEN -e ELSE e) <= n

ReviewsOf(s) == { x \in db["review"] : x.restaurant_id = s }

\* The fields of a patch body that carry a value.
Given(p) == { f \in DOMAIN p : p[f] # None }

Stored(c, s) == { x \in db[c] : x._id = ObjectId(s) }
WellFormed(s) == ObjectId(s) # Invalid

\* A response to a request for id s: 400 when s is malformed, 404 when s is
\* well formed and names no stored document of collection c.
ErrorFor(r, c, s) ==
    /\ ~WellFormed(s) => r.status = 400
    /\ (WellFormed(s) /\ Stored(c, s) = {}) => r.status = 404

\* C2 as stated: every id-scoped GET or PATCH, whatever its body, answers 404
\* to a well-formed id that names nothing stored and 400 to a malformed id.
C2_EveryScopedRequest ==
    \A s \in IdStrings :
        /\ ErrorFor(get_restaurant(db, s), "restaurant", s)
        /\ \A p \in RestaurantPatches :
               ErrorFor(update_restaurant(db, s, p, Now), "restaurant", s)
        /\ \A p \in ReservationPatches :
               ErrorFor(update_reservation(db, s, p, Now), "reservation", s)
        /\ ErrorFor(list_reviews(db, s), "restaurant", s)
        /\ ErrorFor(list_reservations(db, s, None), "restaurant", s)
        /\ ErrorFor(list_discounts(db, s, <<>>), "restaurant", s)
        /\ ErrorFor(list_campaigns(db, s, <<>>), "restaurant", s)
        /\ ErrorFor(restaurant_analytics(db, s), "restaurant", s)

\* A PATCH with no field that carries a value answers 200 {updated: false}.
NotUpdated(r) == r.status = 200 /\ r.out = [updated |-> FALSE]

\* C2 amended: get_restaurant, and the PATCH handlers when the body carries a
\* field, answer 400 to a malformed id and 404 to a well-formed id that names
\* nothing stored; a PATCH whose body carries no field answers 200
\* {updated: false} whatever the id; the restaurant-scoped list and analytics
\* GETs answer 200 for every id string.
C2_ParsedIdRequests ==
    \A s \in IdStrings :
        /\ ErrorFor(get_restaurant(db, s), "restaurant", s)
        /\ \A p \in RestaurantPatches :
               IF Given(p) = {} THEN NotUpdated(update_restaurant(db, s, p, Now))
               ELSE ErrorFor(update_restaurant(db, s, p, Now), "restaurant", s)
        /\ \A p \in ReservationPatches :
               IF Given(p) = {} THEN NotUpdated(update_reservation(db, s, p, Now))
               ELSE ErrorFor(update_reservation(db, s, p, Now), "reservation", s)
        /\ list_reviews(db, s).status = 200
        /\ \A st \in {None, "pending"} : list_reservations(db, s, st).status = 200
        /\ \A a \in {<<>>, <<TRUE>>} :
               /\ list_discounts(db, s, a).status = 200
               /\ list_campaigns(db, s, a).status = 200
        /\ restaurant_analytics(db, s).status = 200

\* A restaurant and a reservation are stored, and some well-formed id names no
\* restaurant and no reservation but has a review listed under it.
C2_UnknownIdWithReviews ==
    \E s \in IdStrings :
        /\ WellFormed(s)
        /\ db["restaurant"] # {} /\ Stored("restaurant", s) = {}
        /\ db["reservation"] # {} /\ Stored("reservation", s) = {}
        /\ get_restaurant(db, s).status = 404
        /\ update_reservation(db, s, [notes |-> "x"], Now).status = 404
        /\ list_reviews(db, s).status = 200 /\ list_reviews(db, s).out # {}

IdParsingHandlers ==
    {"get_restaurant", "update_restaurant", "create_review", "update_reservation"}

\* C3: a request whose id string is malformed, to a handler that parses the
\* id, fails with 400 and leaves every collection as it was: no request that
\* wrote to the store carried a malformed id.
C3_MalformedIdWritesNothing ==
    ~(last.op \in IdParsingHandlers /\ ~WellFormed(last.id))

CreateOps ==
    [create_review |-> "review", create_reservation |-> "reservation",
     create_discount |-> "discount", create_campaign |-> "campaign"]

\* C4, the mismatch: the request fails with 400 and the store is as it was.
C4_MismatchRejected ==
    \A s \in IdStrings :
        /\ \A p \in ReviewBodies(s) :
               (ReviewValid(p) /\ p.restaurant_id # s) =>
                   create_review(db, s, p) = Response(db, 400, "restaurant_id mismatch")
        /\ \A p \in ReservationBodies(s) :
               (ReservationValid(p) /\ p.restaurant_id # s) =>
                   create_reservation(db, s, p) = Response(db, 400, "restaurant_id mismatch")
        /\ \A p \in PromoBodies(s) :
               p.restaurant_id # s =>
                   /\ create_discount(db, s, p) = Response(db, 400, "restaurant_id mismatch")
                   /\ create_campaign(db, s, p) = Response(db, 400, "restaurant_id mismatch")

\* C4, the match: the step of a create request that wrote to the store
\* inserted exactly one document into the entity's collection, and the
\* request returned that document's id.
C4_OneInserted ==
    (db' # db /\ last'.op \in DOMAIN CreateOps) =>
        LET c == CreateOps[last'.op] IN
        /\ last'.id = last'.body.restaurant_id
        /\ last'.status = 200
        /\ \E x \in db'[c] :
               /\ x \notin db[c]
               /\ db'[c] = db[c] \cup {x}
               /\ last'.out = [_id |-> OidStr(x._id)]
               /\ x.restaurant_id = last'.id

\* C4: for create_review, create_reservation, create_discount and
\* create_campaign, a path id that differs from the body's restaurant_id is
\* rejected with 400 and nothing is inserted or changed; when they are equal
\* exactly one document is inserted and its generated id is returned.
C4_CreateUnderRestaurant == [](C4_MismatchRejected) /\ [][C4_OneInserted]_vars

\* C6: every stored reservation has a status among confirmed, pending, waitlist.
C6_ReservationStatus ==
    \A x \in db["reservation"] : x.status \in ReservationStatuses

\* What a read after the update shows of the document with id s: the
\* response of get_restaurant, or the entries of the reservation listing of
\* the document's restaurant.
ReadBack(d, c, s) ==
    IF c = "restaurant"
    THEN IF get_restaurant(d, s).status = 200 THEN { get_restaurant(d, s).out } ELSE {}
    ELSE { y \in UNION { list_reservations(d, x.restaurant_id, None).out : x \in d[c] } :
             y._id = OidStr(ObjectId(s)) }

\* A PATCH of the document with id s of collection c, body p, answered by r.
PatchOutcome(c, s, p, r) ==
    /\ Given(p) = {} => (r.status = 200 /\ r.out = [updated |-> FALSE] /\ r.db = db)
    /\ (Given(p) # {} /\ Stored(c, s) # {}) =>
           /\ r.status = 200 /\ r.out = [updated |-> TRUE]
           /\ ReadBack(r.db, c, s) # {}
           /\ \A y \in ReadBack(r.db, c, s) :
                  /\ \A f \in Given(p) : y[f] = p[f]
                  /\ "updated_at" \in DOMAIN y
                  /\ y.updated_at > createdAt[<<c, ObjectId(s)>>]

\* C5: a PATCH whose body carries no field answers {updated: false} and
\* leaves the store as it was; one that carries fields, for a stored
\* document, answers {updated: true}, and a read then shows every given field
\* with its new value and an updated_at later than the document's creation.
C5_PartialUpdate ==
    \A s \in IdStrings :
        /\ \A p \in RestaurantPatches :
               PatchOutcome("restaurant", s, p, update_restaurant(db, s, p, Now))
        /\ \A p \in ReservationPatches :
               PatchOutcome("reservation", s, p, update_reservation(db, s, p, Now))

\* A restaurant was renamed by the latest write.
C5_Updated ==
    /\ last.op = "update_restaurant" /\ last.status = 200
    /\ last.out = [updated |-> TRUE]
    /\ \E y \in ReadBack(db, "restaurant", last.id) :
           y.name = "n2" /\ y.updated_at > createdAt[<<"restaurant", ObjectId(last.id)>>]

\* C7: after a restaurant is created, get_restaurant with the returned id
\* returns the submitted fields, the schema defaults for the fields not
\* submitted, and the returned id as _id.
C7_CreateThenGet ==
    last.op = "create_restaurant" =>
        LET g == get_restaurant(db, last.out._id) IN
        /\ g.status = 200
        /\ g.out._id = last.out._id
        /\ DOMAIN g.out = {"_id", "name", "description", "avg_rating"}
        /\ \A f \in DOMAIN last.body : g.out[f] = last.body[f]
        /\ "description" \notin DOMAIN last.body => g.out.description = None
        /\ "avg_rating" \notin DOMAIN last.body => g.out.avg_rating = 0

\* The second restaurant was created with only its name given.
C7_SecondRestaurant ==
    /\ last.op = "create_restaurant"
    /\ last.body = [name |-> "n1"]
    /\ last.out._id = <<"b">>
    /\ get_restaurant(db, last.out._id).status = 200

\* The first k reviews of a restaurant id, in the order of insertion.
FirstReviews(s, k) ==
    { x \in ReviewsOf(s) :
        Cardinality({ y \in ReviewsOf(s) : y._id[OidLen] <= x._id[OidLen] }) <= k }

\* avg is the rounded mean of the reviews of id s that were stored at some
\* earlier moment.
SnapshotMean(avg, s) ==
    \E k \in 1..Cardinality(ReviewsOf(s)) :
        IsRounded2(avg, RatingTotal(FirstReviews(s, k)), k)

Quiet == \A p \in Procs : inflight[p].pc = "idle"

\* C8: the insert, the aggregation and the write of concurrent create_review
\* requests interleave, so the stored avg_rating is the value a restaurant
\* was created with or the rounded mean of the reviews some request saw when
\* it aggregated, which need not be all the reviews stored.
C8_AvgIsSnapshotMean ==
    \A x \in db["restaurant"] :
        \/ \E p \in RestaurantBodies : x.avg_rating = Restaurant(p).avg_rating
        \/ \E s \in IdStrings : ObjectId(s) = x._id /\ SnapshotMean(x.avg_rating, s)

\* Both requests have completed; every review of restaurant "a" was posted
\* under that string; and its avg_rating is the mean of the first review
\* alone, not of the two reviews stored.
C8_StaleAverage ==
    /\ Quiet
    /\ ReviewsOf(<<"A">>) = {}
    /\ Cardinality(ReviewsOf(<<"a">>)) = 2
    /\ \E x \in db["restaurant"] :
           /\ x._id = ObjectId(<<"a">>)
           /\ IsRounded2(x.avg_rating, RatingTotal(FirstReviews(<<"a">>, 1)), 1)
           /\ ~IsRounded2(x.avg_rating, RatingTotal(ReviewsOf(<<"a">>)), 2)

PatchOps == [update_restaurant |-> "restaurant", update_reservation |-> "reservation"]

\* The step of a PATCH request that wrote to the store: one document, the one
\* the id names, differs, and only in the given fields and updated_at.
PatchFrame ==
    (db' # db /\ last'.op \in DOMAIN PatchOps) =>
        LET c == PatchOps[last'.op]
            changed == Given(last'.body) \cup {"updated_at"}
        IN  /\ last'.status = 200
            /\ \A c2 \in Collections \ {c} : db'[c2] = db[c2]
            /\ \E x \in db[c], y \in db'[c] :
                   /\ x._id = ObjectId(last'.id) /\ y._id = x._id
                   /\ db'[c] \ {y} = db[c] \ {x}
                   /\ DOMAIN y = DOMAIN x \cup changed
                   /\ \A f \in DOMAIN x \ changed : y[f] = x[f]

\* A PATCH that carries fields, for a well-formed id that names no document,
\* answers 404 and leaves the store as it was.
PatchNotFound ==
    \A s \in IdStrings :
        /\ \A p \in RestaurantPatches :
               (Given(p) # {} /\ WellFormed(s) /\ Stored("restaurant", s) = {}) =>
                   LET r == update_restaurant(db, s, p, Now)
                   IN  r.status = 404 /\ r.db = db
        /\ \A p \in ReservationPatches :
               (Given(p) # {} /\ WellFormed(s) /\ Stored("reservation", s) = {}) =>
                   LET r == update_reservation(db, s, p, Now)
                   IN  r.status = 404 /\ r.db = db

RECURSIVE CountTotal(_)
CountTotal(g) ==
    IF DOMAIN g = {} THEN 0
    ELSE LET k == CHOOSE j \in DOMAIN g : TRUE
         IN  g[k] + CountTotal([j \in DOMAIN g \ {k} |-> g[j]])

StatusValues == { x.status : x \in db["reservation"] } \cup ReservationStatuses

\* C10: restaurant_analytics for id R counts, per rating, the stored reviews
\* of R with that rating and, per status, the stored reservations of R whose
\* status is now that one; a key is present only with a count above zero, and
\* the counts add up to the numbers of reviews and of reservations of R.
C10_AnalyticsCounts ==
    \A s \in IdStrings :
        LET out == restaurant_analytics(db, s).out
            revs == ReviewsOf(s)
            rsvs == { x \in db["reservation"] : x.restaurant_id = s }
            Have(g, k) == IF k \in DOMAIN g THEN g[k] ELSE 0
        IN  /\ restaurant_analytics(db, s).status = 200
            /\ \A v \in RatingMin..RatingMax :
                   Have(out.reviews, IntStr(v)) = Cardinality({ x \in revs : x.rating = v })
            /\ \A st \in StatusValues :
                   Have(out.reservations, st) = Cardinality({ x \in rsvs : x.status = st })
            /\ DOMAIN out.reviews \subseteq { IntStr(v) : v \in RatingMin..RatingMax }
            /\ DOMAIN out.reservations \subseteq StatusValues
            /\ \A k \in DOMAIN out.reviews : out.reviews[k] > 0
            /\ \A k \in DOMAIN out.reservations : out.reservations[k] > 0
            /\ CountTotal(out.reviews) = Cardinality(revs)
            /\ CountTotal(out.reservations) = Cardinality(rsvs)

\* Two reservations of one restaurant id were created pending and one has
\* been moved to waitlist: the report counts one of each.
C10_AfterStatusChange ==
    /\ last.op = "update_reservation" /\ last.status = 200
    /\ \E s \in IdStrings :
           restaurant_analytics(db, s).out.reservations = [pending |-> 1, waitlist |-> 1]
====
